---- MODULE Spec2Model ----
(***************************************************************************)
(* Model of the dangerzone rust wrapper: the pixel-stream reader           *)
(* (src/rust-wrapper/src/stream_reader.rs), the PDF reconstructor          *)
(* (src/rust-wrapper/src/pdf_reconstructor.rs), and the command-line       *)
(* program that drives them (src/rust-wrapper/src/bin/dangerzone_rust.rs,  *)
(* src/rust-wrapper/src/container.rs).                                     *)
(*                                                                         *)
(* A byte source is a finite sequence of bytes together with the           *)
(* io::ErrorKind its read_exact reports once the bytes run out:            *)
(* "UnexpectedEof" for a source that simply ends (a Cursor, a closed pipe),*)
(* or a transport failure such as "BrokenPipe".  usize is taken to be 64   *)
(* bits wide, so width * height * 3 never wraps for u16 operands.          *)
(***************************************************************************)
EXTENDS Integers, Sequences, FiniteSets, TLC

VARIABLES
    wire,   \* ghost: the page count and the pages the producer encoded
    src,    \* the byte source the PixelStreamReader owns
    pos,    \* number of bytes of src the reader has consumed
    res,    \* the last call made and what it returned
    drained, \* history: a read_all_pages has succeeded and left no byte unread
    dpi,    \* the PdfReconstructor's resolution
    held,   \* the page records the caller holds for reconstruct
    calls,  \* history: the reconstruct calls made on the reconstructor, in order
    conv,   \* one convert_document call: its position, the renderer, the pipes
    cli     \* one run of main: its position, its counters, its exit status

vars == <<wire, src, pos, res, drained, dpi, held, calls, conv, cli>>

(***************************************************************************)
(* Bounds of the model.                                                    *)
(***************************************************************************)
MaxPages == 2   \* pages put on the wire / handed to reconstruct
MaxPixels == 2  \* largest width * height of a well-formed page
MaxCalls == 3   \* reconstruct calls made on one reconstructor
MaxSide == 150  \* largest page side, in pixels, whose page size is computed
PipeCap == 2    \* bytes a pipe between the CLI and the renderer holds
MaxFiles == 3   \* input files named on the command line

\* DPI used for PDF reconstruction
DEFAULT_DPI == 150

(***************************************************************************)
(* Results and errors.                                                     *)
(***************************************************************************)
Ok(v) == [ok |-> TRUE, val |-> v]
Err(e) == [ok |-> FALSE, err |-> e]

\* StreamError
Io(kind) == [kind |-> "Io", io |-> kind]
InvalidPageCount(c) == [kind |-> "InvalidPageCount", count |-> c]
InvalidPageDimensions(w, h) ==
    [kind |-> "InvalidPageDimensions", width |-> w, height |-> h]
InvalidPixelData(e, a) ==
    [kind |-> "InvalidPixelData", expected |-> e, actual |-> a]
UnexpectedEof == [kind |-> "UnexpectedEof"]

\* io::Error's Display for the kinds the model uses (read_exact's short read
\* is the std message the integration test asserts).
IoMessage(kind) ==
    CASE kind = "UnexpectedEof" -> "failed to fill whole buffer"
      [] kind = "BrokenPipe" -> "broken pipe"
      [] OTHER -> "other error"

\* #[error(...)] strings of StreamError
Display(e) ==
    CASE e.kind = "Io" -> "IO error: " \o IoMessage(e.io)
      [] e.kind = "InvalidPageCount" -> "Invalid page count"
      [] e.kind = "InvalidPageDimensions" -> "Invalid page dimensions"
      [] e.kind = "InvalidPixelData" -> "Invalid pixel data"
      [] OTHER -> "Unexpected end of stream"

(***************************************************************************)
(* The wire format, as the tests' create_test_stream writes it.            *)
(***************************************************************************)
to_be_bytes(v) == << (v \div 256) % 256, v % 256 >>

PageData(w, h, px) == [width |-> w, height |-> h, pixels |-> px]

\* expected size computed as one byte per pixel
PageData_new_one_byte(width, height, pixels) ==
    LET expected_size == width * height
    IN  IF Len(pixels) # expected_size
        THEN Err(InvalidPixelData(expected_size, Len(pixels)))
        ELSE Ok(PageData(width, height, pixels))

\* only a buffer that is too short rejected
PageData_new_at_least(width, height, pixels) ==
    LET expected_size == width * height * 3
    IN  IF Len(pixels) < expected_size
        THEN Err(InvalidPixelData(expected_size, Len(pixels)))
        ELSE Ok(PageData(width, height, pixels))

\* PageData::new
PageData_new(width, height, pixels) ==
    LET expected_size == width * height * 3
    IN  IF Len(pixels) # expected_size
        THEN Err(InvalidPixelData(expected_size, Len(pixels)))
        ELSE Ok(PageData(width, height, pixels))

RECURSIVE EncodePages(_)
EncodePages(ps) ==
    IF ps = << >> THEN << >>
    ELSE to_be_bytes(Head(ps).width) \o to_be_bytes(Head(ps).height)
         \o Head(ps).pixels \o EncodePages(Tail(ps))

create_test_stream(page_count, ps) == to_be_bytes(page_count) \o EncodePages(ps)

(***************************************************************************)
(* The byte source: read_exact and byteorder's read_u16::<BigEndian>.      *)
(***************************************************************************)
\* A read that cannot be filled consumes what is left of the source and
\* reports the source's end kind.
read_exact(s, p, n) ==
    IF p + n <= Len(s.data)
    THEN [ok |-> TRUE, bytes |-> SubSeq(s.data, p + 1, p + n), pos |-> p + n]
    ELSE [ok |-> FALSE, io |-> s.end, pos |-> Len(s.data)]

read_u16(s, p) ==
    LET r == read_exact(s, p, 2)
    IN  IF r.ok
        THEN [ok |-> TRUE, val |-> r.bytes[1] * 256 + r.bytes[2], pos |-> r.pos]
        ELSE r

(***************************************************************************)
(* PixelStreamReader.  Every operation takes the source and the cursor and *)
(* yields its Result together with the cursor it leaves behind.            *)
(***************************************************************************)
\* a short read reported as the UnexpectedEof kind everywhere
from_io_error_eof(kind) == IF kind = "UnexpectedEof" THEN UnexpectedEof ELSE Io(kind)

\* `?` on an io::Result: StreamError::Io(#[from] io::Error)
from_io_error(kind) == Io(kind)

\* every failure of the pixel read wrapped as Io
map_pixel_err_io(kind) == Io(kind)

\* the map_err closure on the pixel read of read_page
map_pixel_err(kind) == IF kind = "UnexpectedEof" THEN UnexpectedEof ELSE Io(kind)

\* a page rejected only when its width is zero
zero_dimension_width_only(width, height) == width = 0

\* a page rejected only when both dimensions are zero
zero_dimension_both(width, height) == width = 0 /\ height = 0

\* the dimension check of read_page
zero_dimension(width, height) == width = 0 \/ height = 0

\* read_page_count without the zero check
read_page_count_unchecked(s, p) ==
    LET count == read_u16(s, p)
    IN  IF ~count.ok THEN [out |-> Err(from_io_error(count.io)), pos |-> count.pos]
        ELSE [out |-> Ok(count.val), pos |-> count.pos]

read_page_count(s, p) ==
    LET count == read_u16(s, p)
    IN  IF ~count.ok THEN [out |-> Err(from_io_error(count.io)), pos |-> count.pos]
        ELSE IF count.val = 0
        THEN [out |-> Err(InvalidPageCount(count.val)), pos |-> count.pos]
        ELSE [out |-> Ok(count.val), pos |-> count.pos]

read_page(s, p) ==
    LET width == read_u16(s, p)
    IN  IF ~width.ok THEN [out |-> Err(from_io_error(width.io)), pos |-> width.pos]
        ELSE
        LET height == read_u16(s, width.pos)
        IN  IF ~height.ok
            THEN [out |-> Err(from_io_error(height.io)), pos |-> height.pos]
            ELSE IF zero_dimension(width.val, height.val)
            THEN [out |-> Err(InvalidPageDimensions(width.val, height.val)),
                  pos |-> height.pos]
            ELSE
            LET num_bytes == width.val * height.val * 3
                pixels == read_exact(s, height.pos, num_bytes)
            IN  IF ~pixels.ok
                THEN [out |-> Err(map_pixel_err(pixels.io)), pos |-> pixels.pos]
                ELSE [out |-> Ok(PageData(width.val, height.val, pixels.bytes)),
                      pos |-> pixels.pos]

\* the loop pushing each page in front of the ones read before
RECURSIVE read_pages_loop_reversed(_, _, _, _)
read_pages_loop_reversed(s, p, n, pages) ==
    IF n = 0 THEN [out |-> Ok(pages), pos |-> p]
    ELSE LET page == read_page(s, p)
         IN  IF ~page.out.ok THEN [out |-> page.out, pos |-> page.pos]
             ELSE read_pages_loop_reversed(s, page.pos, n - 1,
                                           << page.out.val >> \o pages)

\* the loop stopping at a failing page and returning the pages read so far
RECURSIVE read_pages_loop_partial(_, _, _, _)
read_pages_loop_partial(s, p, n, pages) ==
    IF n = 0 THEN [out |-> Ok(pages), pos |-> p]
    ELSE LET page == read_page(s, p)
         IN  IF ~page.out.ok THEN [out |-> Ok(pages), pos |-> page.pos]
             ELSE read_pages_loop_partial(s, page.pos, n - 1,
                                          Append(pages, page.out.val))

\* the loop reading on to the end of the source once the pages are read
RECURSIVE read_pages_loop_drains(_, _, _, _)
read_pages_loop_drains(s, p, n, pages) ==
    IF n = 0 THEN [out |-> Ok(pages), pos |-> Len(s.data)]
    ELSE LET page == read_page(s, p)
         IN  IF ~page.out.ok THEN [out |-> page.out, pos |-> page.pos]
             ELSE read_pages_loop_drains(s, page.pos, n - 1,
                                         Append(pages, page.out.val))

\* the loop of read_all_pages: n pages still to read, pages read so far
RECURSIVE read_pages_loop(_, _, _, _)
read_pages_loop(s, p, n, pages) ==
    IF n = 0 THEN [out |-> Ok(pages), pos |-> p]
    ELSE LET page == read_page(s, p)
         IN  IF ~page.out.ok THEN [out |-> page.out, pos |-> page.pos]
             ELSE read_pages_loop(s, page.pos, n - 1, Append(pages, page.out.val))

\* an exhausted source read as a stream of no pages
read_all_pages_empty_at_end(s, p) ==
    LET page_count == read_page_count(s, p)
    IN  IF ~page_count.out.ok
        THEN IF p = Len(s.data) THEN [out |-> Ok(<< >>), pos |-> p] ELSE page_count
        ELSE read_pages_loop(s, page_count.pos, page_count.out.val, << >>)

read_all_pages(s, p) ==
    LET page_count == read_page_count(s, p)
    IN  IF ~page_count.out.ok THEN page_count
        ELSE read_pages_loop(s, page_count.pos, page_count.out.val, << >>)

(***************************************************************************)
(* PdfReconstructor.  Lengths are exact rationals <<numerator,             *)
(* denominator>> in lowest terms (f32 rounding is left out); the document  *)
(* printpdf builds is the sequence of its pages, each with its size and    *)
(* the image placed on it.                                                 *)
(***************************************************************************)
\* PdfError
NoPages == [kind |-> "NoPages"]
PdfCreation == [kind |-> "PdfCreation"]
InvalidDimensions(w, h) == [kind |-> "InvalidDimensions", width |-> w, height |-> h]

RECURSIVE Gcd(_, _)
Gcd(a, b) == IF b = 0 THEN a ELSE Gcd(b, a % b)

Rat(n, d) == LET g == Gcd(n, d) IN << n \div g, d \div g >>

\* the conversion done at DEFAULT_DPI whatever the reconstructor's resolution
pixels_to_points_default(d, pixels) == Rat(pixels * 72, DEFAULT_DPI)

\* (pixels as f32 / self.dpi) * 72.0
pixels_to_points(d, pixels) == Rat(pixels * 72, d)

\* points * 0.352778
points_to_mm(points) == Rat(points[1] * 352778, points[2] * 1000000)

\* the size of the page made for an image of width x height pixels: in
\* points, and in the millimetres handed to PdfDocument::new and add_page
page_size(d, width, height) ==
    [width_pt |-> pixels_to_points(d, width),
     height_pt |-> pixels_to_points(d, height),
     width_mm |-> points_to_mm(pixels_to_points(d, width)),
     height_mm |-> points_to_mm(pixels_to_points(d, height))]

\* ImageBuffer::from_raw is None when the buffer is too small for the image
create_rgb_image(page) ==
    IF Len(page.pixels) < page.width * page.height * 3
    THEN Err(InvalidDimensions(page.width, page.height))
    ELSE Ok([width |-> page.width, height |-> page.height,
             data |-> SubSeq(page.pixels, 1, page.width * page.height * 3)])

\* the page of the document that add_page / PdfDocument::new size and
\* add_page_image fills
add_page_image(d, page) ==
    LET image == create_rgb_image(page)
        size == page_size(d, page.width, page.height)
    IN  IF ~image.ok THEN image
        ELSE Ok([width_pt |-> size.width_pt,
                 height_pt |-> size.height_pt,
                 width_mm |-> size.width_mm,
                 height_mm |-> size.height_mm,
                 image |-> image.val])

\* the loop adding later pages without looking at their dimensions
RECURSIVE add_remaining_pages_unchecked(_, _, _)
add_remaining_pages_unchecked(d, rest, doc) ==
    IF rest = << >> THEN Ok(doc)
    ELSE LET added == add_page_image(d, Head(rest))
         IN  IF ~added.ok THEN added
             ELSE add_remaining_pages_unchecked(d, Tail(rest), Append(doc, added.val))

\* the loop giving every later page the size of the document's first page
RECURSIVE add_remaining_pages_first_size(_, _, _)
add_remaining_pages_first_size(d, rest, doc) ==
    IF rest = << >> THEN Ok(doc)
    ELSE LET page == Head(rest)
         IN  IF page.width = 0 \/ page.height = 0
             THEN Err(InvalidDimensions(page.width, page.height))
             ELSE LET added == add_page_image(d, page)
                  IN  IF ~added.ok THEN added
                      ELSE add_remaining_pages_first_size(d, Tail(rest),
                               Append(doc, [added.val EXCEPT
                                              !.width_pt = doc[1].width_pt,
                                              !.height_pt = doc[1].height_pt,
                                              !.width_mm = doc[1].width_mm,
                                              !.height_mm = doc[1].height_mm]))

\* the loop over pages.iter().skip(1): rest still to add, doc built so far
RECURSIVE add_remaining_pages(_, _, _)
add_remaining_pages(d, rest, doc) ==
    IF rest = << >> THEN Ok(doc)
    ELSE LET page == Head(rest)
         IN  IF page.width = 0 \/ page.height = 0
             THEN Err(InvalidDimensions(page.width, page.height))
             ELSE LET added == add_page_image(d, page)
                  IN  IF ~added.ok THEN added
                      ELSE add_remaining_pages(d, Tail(rest), Append(doc, added.val))

\* an empty input yielding an empty document
reconstruct_empty_ok(d, pages) ==
    IF pages = << >> THEN Ok(<< >>)
    ELSE LET first_page == pages[1]
         IN  IF first_page.width = 0 \/ first_page.height = 0
             THEN Err(InvalidDimensions(first_page.width, first_page.height))
             ELSE LET added == add_page_image(d, first_page)
                  IN  IF ~added.ok THEN added
                      ELSE add_remaining_pages(d, Tail(pages), << added.val >>)

reconstruct(d, pages) ==
    IF pages = << >> THEN Err(NoPages)
    ELSE LET first_page == pages[1]
         IN  IF first_page.width = 0 \/ first_page.height = 0
             THEN Err(InvalidDimensions(first_page.width, first_page.height))
             ELSE LET added == add_page_image(d, first_page)
                  IN  IF ~added.ok THEN added
                      ELSE add_remaining_pages(d, Tail(pages), << added.val >>)

(***************************************************************************)
(* The streams the model starts from: a declared page count and up to      *)
(* MaxPages page frames (zero dimensions included), cut at any byte, over  *)
(* a source that ends cleanly or with a transport failure.                 *)
(***************************************************************************)
EndKinds == {"UnexpectedEof", "BrokenPipe"}

ValidDims == { d \in (1..MaxPixels) \X (1..MaxPixels) : d[1] * d[2] <= MaxPixels }
ZeroDims == { d \in (0..MaxPixels) \X (0..MaxPixels) : d[1] = 0 \/ d[2] = 0 }

\* pixel bytes of the i-th frame: every byte of a stream is different
PixelFill(i, w, h) == [k \in 1..(w * h * 3) |-> (i * 32 + k) % 256]

Frame(i, d) == PageData(d[1], d[2], PixelFill(i, d[1], d[2]))

\* n well-formed frames
Frames(n) == { [i \in 1..n |-> Frame(i, d[i])] : d \in [1..n -> ValidDims] }

\* well-formed frames, possibly followed by one frame with a zero dimension
PageSeqs ==
    UNION { Frames(n) : n \in 0..MaxPages }
    \cup UNION { { Append(ps, Frame(n + 1, z)) : ps \in Frames(n), z \in ZeroDims } :
                 n \in 0..(MaxPages - 1) }

\* the true count; one page less (bytes follow the last declared page); and,
\* before at most one frame, 0 and 256, the smallest count whose high byte is set
DeclaredCounts(ps) ==
    {Len(ps)} \cup (IF Len(ps) > 1 THEN {Len(ps) - 1} ELSE {0, 256})

NoCall == [op |-> "none", start |-> 0, out |-> Ok(0)]

\* no conversion and no batch run under way
NoConversion == [pc |-> "none"]
NoBatch == [pc |-> "none"]

\* the reader over one of the streams of S, nothing read yet
InitStreams(S) ==
    \E ps \in S :
      \E d \in DeclaredCounts(ps), e \in EndKinds :
        LET enc == create_test_stream(d, ps)
        IN  \E cut \in 0..Len(enc) :
              /\ wire = [declared |-> d, pages |-> ps]
              /\ src = [data |-> SubSeq(enc, 1, cut), end |-> e]
              /\ pos = 0
              /\ res = NoCall
              /\ drained = FALSE
              /\ dpi = DEFAULT_DPI
              /\ held = << >>
              /\ calls = << >>
              /\ conv = NoConversion
              /\ cli = NoBatch

Init == InitStreams(PageSeqs)

Call(op, r) ==
    /\ pos' = r.pos
    /\ res' = [op |-> op, start |-> pos, out |-> r.out]
    /\ drained' = (drained \/ (op = "read_all_pages" /\ r.out.ok
                                           /\ r.pos = Len(src.data)))
    /\ UNCHANGED <<wire, src, dpi, held, calls, conv, cli>>

ReadPageCount == Call("read_page_count", read_page_count(src, pos))

ReadPage == Call("read_page", read_page(src, pos))

ReadAllPages == Call("read_all_pages", read_all_pages(src, pos))

Next == ReadPageCount \/ ReadPage \/ ReadAllPages

Spec == Init /\ [][Next]_vars

(***************************************************************************)
(* Page Records: the reader over streams of at most one frame, and a       *)
(* caller that builds records with PageData::new.                          *)
(***************************************************************************)
\* a byte buffer of n bytes
Buffer(n) == [k \in 1..n |-> k % 256]

InitRecord == InitStreams({ ps \in PageSeqs : Len(ps) <= 1 })

\* buffer lengths around the one PageData::new expects
NewLengths(w, h) == { n \in {w * h * 3 - 1, w * h * 3, w * h * 3 + 1} : n >= 0 }

NewPage ==
    \E w \in 0..MaxPixels, h \in 0..MaxPixels :
      \E n \in NewLengths(w, h) :
        /\ res' = [op |-> "new", start |-> pos,
                   arg |-> PageData(w, h, Buffer(n)),
                   out |-> PageData_new(w, h, Buffer(n))]
        /\ UNCHANGED <<wire, src, pos, drained, dpi, held, calls, conv, cli>>

NextRecord == ReadPageCount \/ ReadPage \/ ReadAllPages \/ NewPage

SpecRecord == InitRecord /\ [][NextRecord]_vars

(***************************************************************************)
(* Reconstruction: a reconstructor made by new() or with_dpi(), handed     *)
(* page sequences whose records have any field values (the fields of       *)
(* PageData are public).                                                   *)
(***************************************************************************)
DpiValues == {72, DEFAULT_DPI, 300}

\* records of every size of the model, with a buffer of the right length or
\* one byte short
RecordsOf(d) ==
    { PageData(d[1], d[2], Buffer(n)) :
        n \in { m \in {d[1] * d[2] * 3 - 1, d[1] * d[2] * 3} : m >= 0 } }

ReconRecords == UNION { RecordsOf(d) : d \in ValidDims \cup ZeroDims }

ReconInputs == UNION { [1..n -> ReconRecords] : n \in 0..MaxPages }

\* a reconstructor that has made no call yet, and nothing else going on
ReconIdle ==
    /\ wire = [declared |-> 0, pages |-> << >>]
    /\ src = [data |-> << >>, end |-> "UnexpectedEof"]
    /\ pos = 0
    /\ res = NoCall
    /\ drained = FALSE
    /\ calls = << >>
    /\ conv = NoConversion
    /\ cli = NoBatch

InitRecon ==
    /\ ReconIdle
    /\ dpi \in DpiValues
    /\ held \in ReconInputs

\* a reconstruct call that leaves the reconstructor at the default resolution
Reconstruct_resets_dpi ==
    /\ Len(calls) < MaxCalls
    /\ res' = [op |-> "reconstruct", start |-> pos, arg |-> held,
               out |-> reconstruct(dpi, held)]
    /\ calls' = Append(calls, [dpi |-> dpi, arg |-> held,
                               out |-> reconstruct(dpi, held)])
    /\ dpi' = DEFAULT_DPI
    /\ UNCHANGED <<wire, src, pos, drained, held, conv, cli>>

\* reconstruct(&self, pages) on the pages the caller holds
Reconstruct ==
    /\ Len(calls) < MaxCalls
    /\ res' = [op |-> "reconstruct", start |-> pos, arg |-> held,
               out |-> reconstruct(dpi, held)]
    /\ calls' = Append(calls, [dpi |-> dpi, arg |-> held,
                               out |-> reconstruct(dpi, held)])
    /\ UNCHANGED <<wire, src, pos, drained, dpi, held, conv, cli>>

NextRecon == Reconstruct

SpecRecon == InitRecon /\ [][NextRecon]_vars

(***************************************************************************)
(* Page sizes: reconstructors of each resolution sizing the page of a      *)
(* square image of up to MaxSide pixels a side.                            *)
(***************************************************************************)
InitSize ==
    /\ ReconIdle
    /\ dpi \in DpiValues
    /\ held = << >>

PageSize ==
    \E side \in 1..MaxSide :
      /\ res' = [op |-> "page_size", start |-> pos, arg |-> << side, side >>,
                 out |-> Ok(page_size(dpi, side, side))]
      /\ UNCHANGED <<wire, src, pos, drained, dpi, held, calls, conv, cli>>

NextSize == PageSize

SpecSize == InitSize /\ [][NextSize]_vars

(***************************************************************************)
(* Reader and reconstructor together: the caller reads all pages and hands *)
(* the pages it got to a reconstructor of the default resolution, as       *)
(* convert_document does.                                                  *)
(***************************************************************************)
\* let pages = stream_reader.read_all_pages()?
ReadAllPagesHeld ==
    LET r == read_all_pages(src, pos)
    IN  /\ pos' = r.pos
        /\ res' = [op |-> "read_all_pages", start |-> pos, out |-> r.out]
        /\ drained' = (drained \/ (r.out.ok /\ r.pos = Len(src.data)))
        /\ held' = IF r.out.ok THEN r.out.val ELSE held
        /\ UNCHANGED <<wire, src, dpi, calls, conv, cli>>

\* reconstructor.reconstruct(pages), on the pages just read
ReconstructRead ==
    /\ res.op = "read_all_pages"
    /\ res.out.ok
    /\ Reconstruct

NextCompose == ReadAllPagesHeld \/ ReconstructRead

SpecCompose == Init /\ [][NextCompose]_vars

(***************************************************************************)
(* Repeated reconstruction: one reconstructor, a caller that makes up to   *)
(* MaxCalls reconstruct calls and picks the pages of each call.            *)
(***************************************************************************)
RepeatInputs ==
    { << >>,
      << PageData(1, 1, Buffer(3)) >>,
      << PageData(2, 1, Buffer(6)) >>,
      << PageData(0, 1, << >>) >>,
      << PageData(1, 1, Buffer(3)), PageData(2, 1, Buffer(6)) >> }

InitRepeat ==
    /\ ReconIdle
    /\ dpi \in DpiValues
    /\ held \in RepeatInputs

\* the caller takes other pages for its next call
Hold ==
    /\ Len(calls) < MaxCalls
    /\ \E ps \in RepeatInputs \ {held} : held' = ps
    /\ UNCHANGED <<wire, src, pos, res, drained, dpi, calls, conv, cli>>

NextRepeat == Reconstruct \/ Hold

SpecRepeat == InitRepeat /\ [][NextRepeat]_vars

(***************************************************************************)
(* What the claims speak about, stated from the bytes of the source and    *)
(* from what the producer encoded, not from the reader.                    *)
(***************************************************************************)
Data == src.data
CleanEnd == src.end = "UnexpectedEof"

\* the big-endian u16 at byte offset p (when two bytes are there)
U16At(p) == Data[p + 1] * 256 + Data[p + 2]

WellFormed(pg) ==
    /\ pg.width > 0
    /\ pg.height > 0
    /\ Len(pg.pixels) = pg.width * pg.height * 3

\* the source holds a whole well-formed stream of N >= 1 pages and nothing else
CompleteStream ==
    /\ Len(wire.pages) >= 1
    /\ wire.declared = Len(wire.pages)
    /\ \A i \in 1..Len(wire.pages) : WellFormed(wire.pages[i])
    /\ Data = create_test_stream(wire.declared, wire.pages)

\* Reading wire.declared frames from offset 2: the field in which the bytes
\* run out ("header": a width or height field, "pixels": pixel data), or
\* "none" when they do not run out before the read ends.
RECURSIVE CutField(_, _)
CutField(i, off) ==
    IF i > wire.declared THEN "none"
    ELSE IF Len(Data) < off + 4 THEN "header"
    ELSE IF wire.pages[i].width = 0 \/ wire.pages[i].height = 0 THEN "none"
    ELSE IF Len(Data) < off + 4 + Len(wire.pages[i].pixels) THEN "pixels"
    ELSE CutField(i + 1, off + 4 + Len(wire.pages[i].pixels))

TruncatedIn ==
    IF Len(Data) < 2 THEN "count"
    ELSE IF wire.declared = 0 THEN "none"
    ELSE CutField(1, 2)

\* C1: round trip with order. A read_all_pages from the start of a source
\* that holds the encoding of N >= 1 well-formed pages returns exactly those
\* N pages: same widths, heights and pixel bytes, in wire order.
C1_RoundTrip ==
    (res.op = "read_all_pages" /\ res.start = 0 /\ CompleteStream)
        => (res.out.ok /\ res.out.val = wire.pages)

C1_Witness ==
    /\ res.op = "read_all_pages" /\ res.start = 0 /\ CompleteStream
    /\ Len(wire.pages) >= 2
    /\ wire.pages[1].width # wire.pages[2].width
    /\ res.out.ok /\ Len(res.out.val) = Len(wire.pages)

\* the header read_page meets at res.start declares a page and the source
\* ends before its pixel bytes are all there
ShortPixels ==
    /\ res.op = "read_page"
    /\ Len(Data) >= res.start + 4
    /\ U16At(res.start) > 0
    /\ U16At(res.start + 2) > 0
    /\ Len(Data) < res.start + 4 + U16At(res.start) * U16At(res.start + 2) * 3

\* C2: a failed pixel read in read_page. If the source ends before
\* width*height*3 pixel bytes are available, read_page fails with
\* UnexpectedEof; if the source reports any other failure, read_page fails
\* with Io wrapping that failure.
C2_PixelReadFailure ==
    ShortPixels =>
        /\ ~res.out.ok
        /\ CleanEnd => res.out.err = UnexpectedEof
        /\ ~CleanEnd => res.out.err = Io(src.end)

C2_Witness ==
    /\ ShortPixels /\ CleanEnd
    /\ Len(Data) > res.start + 4
    /\ ~res.out.ok /\ res.out.err.kind = "UnexpectedEof"

\* C3: zero page count. When the first two bytes of the source are 0 0,
\* read_page_count and read_all_pages fail with InvalidPageCount(0) and the
\* reader has consumed exactly those two bytes.
C3_ZeroPageCount ==
    (/\ res.op \in {"read_page_count", "read_all_pages"}
     /\ res.start = 0
     /\ Len(Data) >= 2 /\ Data[1] = 0 /\ Data[2] = 0)
        => (/\ ~res.out.ok
            /\ res.out.err = InvalidPageCount(0)
            /\ pos = 2)

C3_Witness ==
    /\ res.op = "read_all_pages" /\ res.start = 0
    /\ Len(Data) > 2 /\ Data[1] = 0 /\ Data[2] = 0
    /\ ~res.out.ok /\ res.out.err.kind = "InvalidPageCount"

\* read_page meets a header with a zero width or height
ZeroHeader ==
    /\ res.op = "read_page"
    /\ Len(Data) >= res.start + 4
    /\ (U16At(res.start) = 0 \/ U16At(res.start + 2) = 0)

\* C4: zero dimension. When the page header decodes to width = 0 or
\* height = 0, read_page fails with InvalidPageDimensions carrying the
\* decoded width and height, and the reader has advanced exactly the 4
\* header bytes.
C4_ZeroDimension ==
    ZeroHeader =>
        /\ ~res.out.ok
        /\ res.out.err = InvalidPageDimensions(U16At(res.start), U16At(res.start + 2))
        /\ res.out.err.kind # "InvalidPageCount"
        /\ pos = res.start + 4

C4_Witness ==
    /\ ZeroHeader
    /\ U16At(res.start) = 0 /\ U16At(res.start + 2) > 0
    /\ Len(Data) > res.start + 4
    /\ ~res.out.ok /\ res.out.err.kind = "InvalidPageDimensions"

\* n consecutive read_page calls from offset p: whether one of them fails,
\* what the first failing one returns, and how many pages came before it
RECURSIVE FailingStep(_, _, _)
FailingStep(p, n, k) ==
    IF n = 0 THEN [failed |-> FALSE, decoded |-> k]
    ELSE LET r == read_page(src, p)
         IN  IF ~r.out.ok THEN [failed |-> TRUE, out |-> r.out, decoded |-> k]
             ELSE FailingStep(r.pos, n - 1, k + 1)

\* C5: read_all_pages is all-or-nothing. If decoding the page count or any
\* one of the declared pages fails, read_all_pages returns that error and no
\* page at all; otherwise it returns all the declared pages.
C5_AllOrNothing ==
    res.op = "read_all_pages" =>
        LET c == read_page_count(src, res.start)
        IN  IF ~c.out.ok
            THEN ~res.out.ok /\ res.out.err = c.out.err
                 /\ DOMAIN res.out = {"ok", "err"}
            ELSE LET f == FailingStep(c.pos, c.out.val, 0)
                 IN  IF f.failed
                     THEN ~res.out.ok /\ res.out.err = f.out.err
                          /\ DOMAIN res.out = {"ok", "err"}
                     ELSE res.out.ok /\ Len(res.out.val) = c.out.val

C5_Witness ==
    /\ res.op = "read_all_pages"
    /\ ~res.out.ok
    /\ LET c == read_page_count(src, res.start)
       IN  c.out.ok /\ FailingStep(c.pos, c.out.val, 0).decoded >= 1

\* the source ends inside the page-count field of the last call
ShortCount ==
    /\ res.op \in {"read_page_count", "read_all_pages"}
    /\ Len(Data) < res.start + 2

\* the source ends inside the width or height field read_page reads
ShortHeader ==
    /\ res.op = "read_page"
    /\ Len(Data) < res.start + 4

\* a read_all_pages from the start of a stream as the producer wrote it
AlignedReadAll == res.op = "read_all_pages" /\ res.start = 0

\* C6 (as claimed): a truncated stream is reported as the UnexpectedEof kind
\* wherever the truncation falls: inside the page-count field, inside a
\* page's width or height field, or inside its pixel data.
C6_TruncationIsUnexpectedEof ==
    (CleanEnd /\ (\/ ShortCount \/ ShortHeader \/ ShortPixels
                  \/ (AlignedReadAll /\ TruncatedIn # "none")))
        => (~res.out.ok /\ res.out.err = UnexpectedEof)

\* C6 (amended): on a source that simply ends, a truncation inside the
\* page-count field or inside a page's width or height field is reported as
\* the Io kind wrapping the source's UnexpectedEof error; only a truncation
\* inside a page's pixel data is reported as the UnexpectedEof kind.
C6_TruncationClassified ==
    CleanEnd =>
        /\ (ShortCount \/ ShortHeader)
              => (~res.out.ok /\ res.out.err = Io("UnexpectedEof"))
        /\ ShortPixels => (~res.out.ok /\ res.out.err = UnexpectedEof)
        /\ (AlignedReadAll /\ TruncatedIn \in {"count", "header"})
              => (~res.out.ok /\ res.out.err = Io("UnexpectedEof"))
        /\ (AlignedReadAll /\ TruncatedIn = "pixels")
              => (~res.out.ok /\ res.out.err = UnexpectedEof)

\* a read_all_pages that got through one whole page and met the end of the
\* source inside the next page's header
C6_Witness ==
    /\ CleanEnd /\ AlignedReadAll
    /\ TruncatedIn = "header"
    /\ Len(wire.pages) >= 1
    /\ Len(Data) > 2 + 4 + Len(wire.pages[1].pixels)
    /\ ~res.out.ok /\ res.out.err = Io("UnexpectedEof")

\* C7: reading past the end. After a read_all_pages has decoded a complete
\* stream from a finite source and no bytes remain, a further read_all_pages
\* on the same reader fails with the Io kind wrapping the short read,
\* displayed as "IO error: failed to fill whole buffer"; it returns neither
\* an empty page list nor earlier pages.
C7_ReadPastEnd ==
    (/\ drained /\ CleanEnd
     /\ res.op = "read_all_pages"
     /\ res.start = Len(Data))
        => (/\ ~res.out.ok
            /\ res.out.err = Io("UnexpectedEof")
            /\ Display(res.out.err) = "IO error: failed to fill whole buffer"
            /\ pos = Len(Data))

C7_Witness ==
    /\ drained /\ CleanEnd /\ CompleteStream
    /\ res.op = "read_all_pages"
    /\ res.start = Len(Data)
    /\ ~res.out.ok
    /\ Display(res.out.err) = "IO error: failed to fill whole buffer"

\* C8: PageData::new(width, height, pixels) returns a Page Record with
\* exactly those three values when pixels.len() = width*height*3, and
\* otherwise fails with InvalidPixelData{expected: width*height*3,
\* actual: pixels.len()}; it has no other outcome.
C8_PageDataNew ==
    res.op = "new" =>
        LET a == res.arg
        IN  IF Len(a.pixels) = a.width * a.height * 3
            THEN /\ res.out.ok
                 /\ res.out.val.width = a.width
                 /\ res.out.val.height = a.height
                 /\ res.out.val.pixels = a.pixels
            ELSE /\ ~res.out.ok
                 /\ res.out.err.kind = "InvalidPixelData"
                 /\ res.out.err.expected = a.width * a.height * 3
                 /\ res.out.err.actual = Len(a.pixels)

C8_Witness ==
    /\ res.op = "new"
    /\ res.arg.width = 1 /\ res.arg.height = 2 /\ Len(res.arg.pixels) = 5
    /\ ~res.out.ok /\ res.out.err = InvalidPixelData(6, 5)

\* C9 (as claimed): every Page Record that PageData::new or read_page
\* returns has width > 0, height > 0 and exactly width*height*3 pixel bytes.
C9_RecordAlwaysValid ==
    (res.op \in {"new", "read_page"} /\ res.out.ok) => WellFormed(res.out.val)

\* C9 (amended): every Page Record that PageData::new or read_page returns
\* has exactly width*height*3 pixel bytes, and one that read_page returns
\* also has width > 0 and height > 0; PageData::new accepts a zero width or
\* height together with an empty buffer.
C9_RecordInvariant ==
    (res.op \in {"new", "read_page"} /\ res.out.ok) =>
        /\ Len(res.out.val.pixels) = res.out.val.width * res.out.val.height * 3
        /\ res.op = "read_page" => WellFormed(res.out.val)

C9_Witness ==
    /\ res.op = "new" /\ res.out.ok
    /\ res.out.val.width = 0 /\ res.out.val.height > 0
    /\ res.out.val.pixels = << >>

\* C10: reconstruct called with an empty page sequence fails with NoPages and
\* produces no document, for every configured resolution.
C10_EmptyInput ==
    (res.op = "reconstruct" /\ Len(res.arg) = 0) =>
        /\ ~res.out.ok
        /\ res.out.err = NoPages
        /\ DOMAIN res.out = {"ok", "err"}

C10_Witness ==
    /\ res.op = "reconstruct" /\ Len(res.arg) = 0
    /\ dpi = 300
    /\ ~res.out.ok /\ res.out.err.kind = "NoPages"

(***************************************************************************)
(* convert_document: the CLI reads the input file, spawns the renderer     *)
(* with its three standard channels piped, writes the whole input to the   *)
(* renderer's stdin, reads the pixel stream from its stdout, waits for it, *)
(* reconstructs the document and writes the output file.  The renderer is  *)
(* a separate sequential process: it reads its stdin to the end, writes    *)
(* some bytes to its stderr and src.data to its stdout, and exits; it does *)
(* so in one of the orders of RendererKinds.  A pipe holds at most PipeCap *)
(* bytes; a write to a full pipe and a read from an empty one block.       *)
(***************************************************************************)
\* sizes of the input file and of what the renderer writes to stderr:
\* nothing, exactly what a pipe holds, one byte more
InputSizes == {0, PipeCap, PipeCap + 1}
StderrSizes == {0, PipeCap, PipeCap + 1}

\* what the renderer has to write to stdout: a stream of at most one frame,
\* whole, one byte short, or nothing at all
ConvertPages == { ps \in PageSeqs : Len(ps) <= 1 }
Cuts(enc) == {0, Len(enc) - 1, Len(enc)}

\* the order in which the renderer works:
\*   "input_first":  read stdin to the end, write stderr, write stdout, exit
\*   "output_first": write stdout, read stdin to the end, write stderr, exit
\*   "abandons":     write stderr, write stdout, exit; stdin is never read
RendererKinds == {"input_first", "output_first", "abandons"}

Min(a, b) == IF a < b THEN a ELSE b

InitConvert ==
    \E ps \in ConvertPages, input \in InputSizes, log \in StderrSizes,
       kind \in RendererKinds :
      LET enc == create_test_stream(Len(ps), ps)
      IN  \E cut \in Cuts(enc) :
            /\ wire = [declared |-> Len(ps), pages |-> ps]
            /\ src = [data |-> SubSeq(enc, 1, cut), end |-> "UnexpectedEof"]
            /\ pos = 0
            /\ res = NoCall
            /\ drained = FALSE
            /\ dpi = DEFAULT_DPI
            /\ held = << >>
            /\ calls = << >>
            /\ cli = NoBatch
            /\ conv = [pc |-> "read_input",    \* the step convert_document is at
                       result |-> "none",      \* what it returned: "Ok" or "Err"
                       failed |-> "none",      \* the step whose error it returned
                       log |-> << >>,          \* history: the steps completed, in order
                       to_write |-> input,     \* input bytes not yet written to stdin
                       stdin |-> 0,            \* bytes in the stdin pipe
                       stdin_open |-> FALSE,   \* the CLI holds the write end of stdin
                       stdout |-> 0,           \* bytes in the stdout pipe
                       to_emit |-> cut,        \* bytes the renderer has yet to write to stdout
                       stderr |-> 0,           \* bytes in the stderr pipe
                       to_log |-> log,         \* bytes the renderer has yet to write to stderr
                       renderer |-> "none",    \* "none", "running" or "exited"
                       kind |-> kind,          \* the order in which the renderer works
                       saw_eof |-> FALSE,      \* the renderer read its stdin to the end
                       status |-> 0,           \* the renderer's exit status
                       waited |-> FALSE,       \* child.wait() has returned
                       output |-> "untouched"] \* the output path: "untouched", "created", "written"

\* the step completed, convert_document goes on to the next one
Done(step, next) == [conv EXCEPT !.pc = next, !.log = Append(@, step)]

\* the step failed and ? returns its error; the Child, if any, is dropped,
\* which closes the CLI's ends of the pipes and does not wait
Fail(step) ==
    [conv EXCEPT !.pc = "returned", !.result = "Err", !.failed = step,
                 !.stdin_open = FALSE]

Others == <<wire, src, drained, dpi, calls, cli>>

\* std::fs::read(input_path)?
ReadInput ==
    /\ conv.pc = "read_input"
    /\ \E ok \in BOOLEAN :
         conv' = IF ok THEN Done("read_input", "with_auto_runtime")
                 ELSE Fail("read_input")
    /\ UNCHANGED <<Others, pos, res, held>>

\* ContainerRunner::with_auto_runtime(container_name)?
WithAutoRuntime ==
    /\ conv.pc = "with_auto_runtime"
    /\ \E found \in BOOLEAN :
         conv' = IF found THEN Done("with_auto_runtime", "run")
                 ELSE Fail("with_auto_runtime")
    /\ UNCHANGED <<Others, pos, res, held>>

\* self.run(image, command, extra_args)?: spawn with stdin, stdout and
\* stderr piped
Run ==
    /\ conv.pc = "run"
    /\ \E spawned \in BOOLEAN :
         conv' = IF spawned
                 THEN [Done("run", "write_all") EXCEPT !.renderer = "running",
                                                       !.stdin_open = TRUE]
                 ELSE Fail("run")
    /\ UNCHANGED <<Others, pos, res, held>>

\* stdin.write_all(input_data): as many bytes as the pipe takes
WriteInput ==
    /\ conv.pc = "write_all"
    /\ conv.to_write > 0
    /\ conv.renderer = "running"
    /\ conv.stdin < PipeCap
    /\ LET n == Min(conv.to_write, PipeCap - conv.stdin)
       IN  conv' = [conv EXCEPT !.to_write = @ - n, !.stdin = @ + n]
    /\ UNCHANGED <<Others, pos, res, held>>

\* stdin.write_all(input_data).map_err(ContainerError::from)?: the renderer
\* is gone, the write fails with BrokenPipe
WriteInputFails ==
    /\ conv.pc = "write_all"
    /\ conv.to_write > 0
    /\ conv.renderer = "exited"
    /\ conv' = Fail("write_all")
    /\ UNCHANGED <<Others, pos, res, held>>

\* run_with_input returning straight to the wait, no page read
CloseInput_waits_first ==
    /\ conv.pc = "write_all"
    /\ conv.to_write = 0
    /\ conv' = [Done("write_all", "wait") EXCEPT !.stdin_open = FALSE]
    /\ UNCHANGED <<Others, pos, res, held>>

\* the input is written: stdin is dropped, run_with_input returns the
\* Child, child.stdout.take() is Some
CloseInput ==
    /\ conv.pc = "write_all"
    /\ conv.to_write = 0
    /\ conv' = [Done("write_all", "read_all_pages") EXCEPT !.stdin_open = FALSE]
    /\ UNCHANGED <<Others, pos, res, held>>

\* what read_all_pages makes of everything the renderer writes to stdout
Decoded == read_all_pages(src, 0)

\* the decoder runs out of bytes: its read returns at the end of the stream
NeedsEof ==
    /\ ~Decoded.out.ok
    /\ Decoded.out.err \in {Io("UnexpectedEof"), UnexpectedEof}

\* read_all_pages under way: read_exact takes the bytes the pipe holds
ReadOutput ==
    /\ conv.pc = "read_all_pages"
    /\ conv.stdout > 0
    /\ pos < Decoded.pos
    /\ LET n == Min(conv.stdout, Decoded.pos - pos)
       IN  /\ pos' = pos + n
           /\ conv' = [conv EXCEPT !.stdout = @ - n]
    /\ UNCHANGED <<Others, res, held>>

\* let pages = stream_reader.read_all_pages()?: the decoder has what it
\* asked for, or the stream ended (the renderer exited and the pipe is empty)
ReturnPages ==
    /\ conv.pc = "read_all_pages"
    /\ pos = Decoded.pos
    /\ NeedsEof => (conv.renderer = "exited" /\ conv.stdout = 0)
    /\ res' = [op |-> "read_all_pages", start |-> 0, out |-> Decoded.out]
    /\ held' = IF Decoded.out.ok THEN Decoded.out.val ELSE held
    /\ conv' = IF Decoded.out.ok THEN Done("read_all_pages", "wait")
               ELSE Fail("read_all_pages")
    /\ UNCHANGED <<Others, pos>>

\* let status = child.wait()?: returns once the renderer has exited
Wait ==
    /\ conv.pc = "wait"
    /\ conv.renderer = "exited"
    /\ conv' = [Done("wait", "status") EXCEPT !.waited = TRUE]
    /\ UNCHANGED <<Others, pos, res, held>>

\* the exit status not looked at
CheckStatus_ignored ==
    /\ conv.pc = "status"
    /\ conv' = Done("status", "reconstruct")
    /\ UNCHANGED <<Others, pos, res, held>>

\* if !status.success() { return Err(..) }
CheckStatus ==
    /\ conv.pc = "status"
    /\ conv' = IF conv.status = 0 THEN Done("status", "reconstruct")
               ELSE Fail("status")
    /\ UNCHANGED <<Others, pos, res, held>>

\* PdfReconstructor::new().reconstruct(pages)?; doc.save may fail
ReconstructPages ==
    /\ conv.pc = "reconstruct"
    /\ \E saved \in BOOLEAN :
         LET out == IF saved THEN reconstruct(DEFAULT_DPI, held) ELSE Err(PdfCreation)
         IN  /\ res' = [op |-> "reconstruct", start |-> pos, arg |-> held, out |-> out]
             /\ conv' = IF out.ok THEN Done("reconstruct", "create")
                        ELSE Fail("reconstruct")
    /\ UNCHANGED <<Others, pos, held>>

\* File::create(output_path)?
CreateFile ==
    /\ conv.pc = "create"
    /\ \E ok \in BOOLEAN :
         conv' = IF ok THEN [Done("create", "write") EXCEPT !.output = "created"]
                 ELSE Fail("create")
    /\ UNCHANGED <<Others, pos, res, held>>

\* output_file.write_all(&pdf_data)?; Ok(())
WriteFile ==
    /\ conv.pc = "write"
    /\ \E ok \in BOOLEAN :
         conv' = IF ok THEN [Done("write", "returned") EXCEPT !.output = "written",
                                                              !.result = "Ok"]
                 ELSE Fail("write")
    /\ UNCHANGED <<Others, pos, res, held>>

\* the renderer is followed until convert_document returns
Running == conv.renderer = "running" /\ conv.pc # "returned"

\* where the renderer is in its order of work
AtInput ==
    \/ conv.kind = "input_first"
    \/ conv.kind = "output_first" /\ conv.to_emit = 0

AtStderr == conv.kind = "abandons" \/ conv.saw_eof

AtStdout ==
    \/ conv.kind = "output_first"
    \/ conv.to_log = 0 /\ AtStderr

\* the renderer reads what its stdin holds
RendererReads ==
    /\ Running
    /\ AtInput
    /\ conv.stdin > 0
    /\ conv' = [conv EXCEPT !.stdin = 0]
    /\ UNCHANGED <<Others, pos, res, held>>

\* the renderer's read of stdin returns 0: the pipe is empty and closed
RendererSeesEof ==
    /\ Running
    /\ AtInput
    /\ ~conv.saw_eof
    /\ conv.stdin = 0
    /\ ~conv.stdin_open
    /\ conv' = [conv EXCEPT !.saw_eof = TRUE]
    /\ UNCHANGED <<Others, pos, res, held>>

\* the renderer writes to stdout as many bytes as the pipe takes
RendererWrites ==
    /\ Running
    /\ AtStdout
    /\ conv.to_emit > 0
    /\ conv.stdout < PipeCap
    /\ LET n == Min(conv.to_emit, PipeCap - conv.stdout)
       IN  conv' = [conv EXCEPT !.to_emit = @ - n, !.stdout = @ + n]
    /\ UNCHANGED <<Others, pos, res, held>>

\* the renderer writes to stderr as many bytes as the pipe takes; nothing
\* ever reads them
RendererLogs ==
    /\ Running
    /\ AtStderr
    /\ conv.to_log > 0
    /\ conv.stderr < PipeCap
    /\ LET n == Min(conv.to_log, PipeCap - conv.stderr)
       IN  conv' = [conv EXCEPT !.to_log = @ - n, !.stderr = @ + n]
    /\ UNCHANGED <<Others, pos, res, held>>

\* the renderer exits once it has written everything; what it left unread
\* in its stdin is discarded
RendererExits ==
    /\ Running
    /\ conv.to_emit = 0
    /\ conv.to_log = 0
    /\ conv.saw_eof \/ conv.kind = "abandons"
    /\ \E st \in {0, 1} :
         conv' = [conv EXCEPT !.renderer = "exited", !.status = st, !.stdin = 0]
    /\ UNCHANGED <<Others, pos, res, held>>

NextConvert ==
    \/ ReadInput \/ WithAutoRuntime \/ Run
    \/ WriteInput \/ WriteInputFails \/ CloseInput
    \/ ReadOutput \/ ReturnPages
    \/ Wait \/ CheckStatus \/ ReconstructPages \/ CreateFile \/ WriteFile
    \/ RendererReads \/ RendererSeesEof \/ RendererWrites \/ RendererLogs
    \/ RendererExits

SpecConvert == InitConvert /\ [][NextConvert]_vars

(***************************************************************************)
(* main: the command line names one or more input files and possibly an   *)
(* output filename; each file is missing, or is handed to                  *)
(* convert_document, which returns Ok, returns an error, or does not       *)
(* return.                                                                 *)
(***************************************************************************)
\* what becomes of an input file: input_path.exists() is false
\* ("missing"), or convert_document returns Ok ("converts"), returns Err
\* ("fails") or never returns ("hangs")
FileKinds == {"missing", "converts", "fails", "hangs"}

InitMain ==
    /\ wire = [declared |-> 0, pages |-> << >>]
    /\ src = [data |-> << >>, end |-> "UnexpectedEof"]
    /\ pos = 0
    /\ res = NoCall
    /\ drained = FALSE
    /\ dpi = DEFAULT_DPI
    /\ held = << >>
    /\ calls = << >>
    /\ conv = NoConversion
    /\ \E n \in 1..MaxFiles :
         \E names \in [1..n -> FileKinds], output \in BOOLEAN :
           cli = [pc |-> "validate",          \* "validate", "loop" or "exited"
                  filenames |-> names,        \* args.filenames, each by what becomes of it
                  output_filename |-> output, \* args.output_filename.is_some()
                  next |-> 1,                 \* index of the next input of the loop
                  success_count |-> 0,
                  failed_files |-> << >>,     \* indexes of the inputs pushed
                  reports |-> << >>,          \* what was printed about which input
                  rejected |-> FALSE,         \* the arguments were refused
                  exit |-> -1]                \* the exit status, -1 while running

Rest == <<wire, src, pos, res, drained, dpi, held, calls, conv>>

Report(file, msg) == [file |-> file, msg |-> msg]

\* the validation of the arguments, before any input is looked at
Validate ==
    /\ cli.pc = "validate"
    /\ cli' = IF Len(cli.filenames) > 1 /\ cli.output_filename
              THEN [cli EXCEPT !.pc = "exited", !.rejected = TRUE, !.exit = 1,
                               !.reports = Append(@, Report(0,
                                   "Error: --output-filename can only be used with one input file."))]
              ELSE [cli EXCEPT !.pc = "loop"]
    /\ UNCHANGED Rest

\* a missing input ending the run
FileNotFound_aborts ==
    /\ cli.pc = "loop"
    /\ cli.next <= Len(cli.filenames)
    /\ cli.filenames[cli.next] = "missing"
    /\ cli' = [cli EXCEPT !.reports = Append(@, Report(cli.next, "Error: File not found")),
                          !.failed_files = Append(@, cli.next),
                          !.next = @ + 1,
                          !.pc = "exited",
                          !.exit = 1]
    /\ UNCHANGED Rest

\* if !input_path.exists() { eprintln!; failed_files.push; continue }
FileNotFound ==
    /\ cli.pc = "loop"
    /\ cli.next <= Len(cli.filenames)
    /\ cli.filenames[cli.next] = "missing"
    /\ cli' = [cli EXCEPT !.reports = Append(@, Report(cli.next, "Error: File not found")),
                          !.failed_files = Append(@, cli.next),
                          !.next = @ + 1]
    /\ UNCHANGED Rest

\* match convert_document(..) { Ok(_) => .., Err(e) => .. }
Convert ==
    /\ cli.pc = "loop"
    /\ cli.next <= Len(cli.filenames)
    /\ cli.filenames[cli.next] \in {"converts", "fails"}
    /\ cli' = IF cli.filenames[cli.next] = "converts"
              THEN [cli EXCEPT !.reports = Append(@, Report(cli.next,
                                                "Successfully converted to safe PDF")),
                               !.success_count = @ + 1,
                               !.next = @ + 1]
              ELSE [cli EXCEPT !.reports = Append(@, Report(cli.next, "Conversion failed")),
                               !.failed_files = Append(@, cli.next),
                               !.next = @ + 1]
    /\ UNCHANGED Rest

\* the summary after the loop: exit(1) if failed_files is not empty, else Ok(())
Summary ==
    /\ cli.pc = "loop"
    /\ cli.next > Len(cli.filenames)
    /\ cli' = [cli EXCEPT !.pc = "exited",
                          !.exit = IF cli.failed_files # << >> THEN 1 ELSE 0]
    /\ UNCHANGED Rest

NextMain == Validate \/ FileNotFound \/ Convert \/ Summary

SpecMain == InitMain /\ [][NextMain]_vars

(***************************************************************************)
(* Claims about reconstruct.                                               *)
(***************************************************************************)
HasZero(pg) == pg.width = 0 \/ pg.height = 0

\* the buffer is too short for an image of the record's dimensions
TooShort(pg) == Len(pg.pixels) < pg.width * pg.height * 3

\* the last reconstruct call was handed a page with a zero dimension
ZeroPageGiven ==
    /\ res.op = "reconstruct"
    /\ \E i \in 1..Len(res.arg) : HasZero(res.arg[i])

FirstZero(ps) ==
    CHOOSE i \in 1..Len(ps) :
        HasZero(ps[i]) /\ \A j \in 1..(i - 1) : ~HasZero(ps[j])

\* the last reconstruct call was handed a page it cannot place
RejectedPageGiven ==
    /\ res.op = "reconstruct"
    /\ \E i \in 1..Len(res.arg) : HasZero(res.arg[i]) \/ TooShort(res.arg[i])

FirstRejected(ps) ==
    CHOOSE i \in 1..Len(ps) :
        /\ HasZero(ps[i]) \/ TooShort(ps[i])
        /\ \A j \in 1..(i - 1) : ~(HasZero(ps[j]) \/ TooShort(ps[j]))

\* C11 (as claimed): if any page handed to reconstruct has width = 0 or
\* height = 0, reconstruct fails with InvalidDimensions carrying the width
\* and height of the first such page in sequence order, and returns no
\* document.
C11_FirstZeroPage ==
    ZeroPageGiven =>
        LET bad == res.arg[FirstZero(res.arg)]
        IN  /\ ~res.out.ok
            /\ res.out.err = InvalidDimensions(bad.width, bad.height)
            /\ DOMAIN res.out = {"ok", "err"}

\* C11 (amended): reconstruct checks pages in order and fails with
\* InvalidDimensions carrying the width and height of the first page, in
\* sequence order, that has width = 0, height = 0 or fewer than
\* width*height*3 pixel bytes, returning no document even when earlier pages
\* were valid; that page is the first zero-dimension page whenever every
\* page before it has at least width*height*3 pixel bytes.
C11_FirstRejectedPage ==
    RejectedPageGiven =>
        LET bad == res.arg[FirstRejected(res.arg)]
        IN  /\ ~res.out.ok
            /\ res.out.err = InvalidDimensions(bad.width, bad.height)
            /\ DOMAIN res.out = {"ok", "err"}

\* a zero-dimension page in second position, after a valid page
C11_Witness ==
    /\ ZeroPageGiven
    /\ Len(res.arg) = 2
    /\ WellFormed(res.arg[1])
    /\ res.arg[2].width > 0 /\ res.arg[2].height = 0
    /\ ~res.out.ok
    /\ res.out.err = InvalidDimensions(res.arg[2].width, 0)

\* the last reconstruct call was handed a non-empty sequence of valid pages
ValidPagesGiven ==
    /\ res.op = "reconstruct"
    /\ Len(res.arg) >= 1
    /\ \A i \in 1..Len(res.arg) : WellFormed(res.arg[i])

\* points = pixels / resolution * 72, for a length <<numerator, denominator>>
IsPoints(points, pixels) == points[1] * dpi = pixels * 72 * points[2]

\* C12: for a non-empty sequence of valid pages, the document reconstruct
\* builds has exactly one page per input Page Record, in input order, and
\* the i-th page carries the i-th record's image and is sized from the i-th
\* record's own dimensions (points = pixels / resolution * 72), the first
\* page and every later page alike.
C12_PagePerRecord ==
    ValidPagesGiven =>
        /\ res.out.ok
        /\ Len(res.out.val) = Len(res.arg)
        /\ \A i \in 1..Len(res.arg) :
             /\ IsPoints(res.out.val[i].width_pt, res.arg[i].width)
             /\ IsPoints(res.out.val[i].height_pt, res.arg[i].height)
             /\ res.out.val[i].width_mm = points_to_mm(res.out.val[i].width_pt)
             /\ res.out.val[i].height_mm = points_to_mm(res.out.val[i].height_pt)
             /\ res.out.val[i].image = [width |-> res.arg[i].width,
                                        height |-> res.arg[i].height,
                                        data |-> res.arg[i].pixels]

\* two valid pages of different widths, at a resolution other than the default
C12_Witness ==
    /\ ValidPagesGiven
    /\ dpi = 300
    /\ Len(res.arg) = 2
    /\ res.arg[1].width # res.arg[2].width
    /\ res.out.ok
    /\ res.out.val[1].width_pt # res.out.val[2].width_pt

\* the page of a 150x150 pixel image was sized
TestPageSized == res.op = "page_size" /\ res.arg = << 150, 150 >>

\* length a is exactly half of length b
IsHalf(a, b) == Rat(2 * a[1], a[2]) = b

\* C13: custom resolution scaling. The page of a 150x150 pixel image is 72
\* points wide and high at resolution 150, and at resolution 300 it gets
\* exactly half the width and half the height, in points and in the
\* millimetres of the page size, that it gets at resolution 150.
C13_CustomDpiHalves ==
    TestPageSized =>
        LET at150 == page_size(DEFAULT_DPI, 150, 150)
        IN  /\ dpi = DEFAULT_DPI =>
                 /\ res.out.val.width_pt = << 72, 1 >>
                 /\ res.out.val.height_pt = << 72, 1 >>
            /\ dpi = 300 =>
                 /\ res.out.val.width_pt = << 36, 1 >>
                 /\ res.out.val.height_pt = << 36, 1 >>
                 /\ IsHalf(res.out.val.width_pt, at150.width_pt)
                 /\ IsHalf(res.out.val.height_pt, at150.height_pt)
                 /\ IsHalf(res.out.val.width_mm, at150.width_mm)
                 /\ IsHalf(res.out.val.height_mm, at150.height_mm)

C13_Witness ==
    /\ TestPageSized
    /\ dpi = 300
    /\ res.out.val.width_pt = << 36, 1 >>
    /\ res.out.val.width_mm = << 1587501, 125000 >>

\* C14: reconstruction determinism. Every reconstruct call was made at the
\* resolution the reconstructor still has, and any two calls made on it with
\* the same Page Record sequence returned the same outcome (the same error,
\* or the same pages with the same sizes), whatever calls came before or
\* between them.
C14_Deterministic ==
    /\ \A i \in 1..Len(calls) : calls[i].dpi = dpi
    /\ \A i, j \in 1..Len(calls) :
         calls[i].arg = calls[j].arg => calls[i].out = calls[j].out

\* the same pages reconstructed twice with a failing call on other pages
\* in between
C14_Witness ==
    /\ Len(calls) = 3
    /\ dpi = 300
    /\ calls[1].arg = calls[3].arg
    /\ calls[2].arg # calls[1].arg
    /\ calls[1].out.ok /\ calls[3].out.ok
    /\ ~calls[2].out.ok

\* C19: reader and reconstructor compose. Every page sequence a successful
\* read_all_pages returns is non-empty, has exactly as many pages as the
\* count declared at the offset the read started from, and consists of
\* pages with width > 0, height > 0 and width*height*3 pixel bytes; and
\* reconstruct applied to it does not fail with NoPages or
\* InvalidDimensions.
C19_ReaderFeedsReconstructor ==
    /\ (res.op = "read_all_pages" /\ res.out.ok) =>
          /\ Len(res.out.val) >= 1
          /\ Len(res.out.val) = U16At(res.start)
          /\ \A i \in 1..Len(res.out.val) : WellFormed(res.out.val[i])
          /\ held = res.out.val
    /\ res.op = "reconstruct" =>
          \/ res.out.ok
          \/ res.out.err.kind \notin {"NoPages", "InvalidDimensions"}

\* two pages read from the wire and reconstructed
C19_Witness ==
    /\ res.op = "reconstruct"
    /\ res.arg = wire.pages
    /\ Len(res.arg) = 2
    /\ res.out.ok /\ Len(res.out.val) = 2

(***************************************************************************)
(* Claims about convert_document.                                          *)
(***************************************************************************)
\* bytes of the frames i .. wire.declared of the stream the renderer declares
RECURSIVE FrameBytes(_)
FrameBytes(i) ==
    IF i > wire.declared THEN 0
    ELSE 4 + wire.pages[i].width * wire.pages[i].height * 3 + FrameBytes(i + 1)

\* the page count and every frame the count declares
DeclaredBytes == 2 + FrameBytes(1)

\* the positions of a step in the log of completed steps
StepsOf(step) == { i \in 1..Len(conv.log) : conv.log[i] = step }

\* the wait for the renderer's exit status is under way or over
StatusAskedFor == conv.pc \in {"wait", "status"} \/ StepsOf("wait") # {}

\* C15: in convert_document the renderer's exit status is asked for and
\* checked only after read_all_pages has returned successfully, with every
\* byte the stream declares (the count and each declared page) read from
\* the renderer's output channel and the declared pages in hand.
C15_StatusAfterDrain ==
    StatusAskedFor =>
        /\ StepsOf("read_all_pages") # {}
        /\ \A r \in StepsOf("read_all_pages") :
             \A w \in StepsOf("wait") \cup StepsOf("status") : r < w
        /\ pos = DeclaredBytes
        /\ Len(held) = wire.declared
        /\ held = wire.pages

\* the status of a renderer that exited with failure is being checked, the
\* whole stream read
C15_Witness ==
    /\ conv.pc = "status"
    /\ conv.status = 1
    /\ Len(held) = 1
    /\ pos = DeclaredBytes /\ pos = Len(Data)

\* a renderer that reads its input, writes a well-formed stream and exits
WellBehavedRenderer == conv.kind # "abandons" /\ CompleteStream

\* C17 (as claimed): conversion does not deadlock. With a renderer that
\* reads its whole input, writes a well-formed stream and exits, a
\* conversion that has not returned can always take a step: the CLI or the
\* renderer is able to go on, whatever the input size and whatever the
\* renderer writes to its output and error channels.
C17_NoDeadlock ==
    (conv.pc \notin {"none", "returned"} /\ WellBehavedRenderer)
        => ENABLED NextConvert

\* the steps passed, in this order, before the output path is touched
SafeToWrite ==
    /\ \E r \in StepsOf("read_all_pages"), c \in StepsOf("status"),
          b \in StepsOf("reconstruct") : r < c /\ c < b
    /\ conv.waited
    /\ conv.status = 0
    /\ Decoded.out.ok

\* C18: no unsafe output on failure. The output path is created or written
\* only after read_all_pages succeeded, the renderer exited with success
\* status and reconstruct succeeded, in that order; a conversion that
\* failed in any step up to reconstruct leaves the output path untouched.
C18_NoUnsafeOutput ==
    /\ (conv.output # "untouched" \/ conv.pc \in {"create", "write"}) => SafeToWrite
    /\ (conv.result = "Err" /\ conv.failed \notin {"create", "write"})
          => conv.output = "untouched"

\* a conversion that read every page and then found the renderer had failed
C18_Witness ==
    /\ conv.pc = "returned"
    /\ conv.result = "Err" /\ conv.failed = "status"
    /\ Len(held) = 1
    /\ conv.output = "untouched"

\* C20 (as claimed): the renderer process is always reaped. A conversion
\* that spawned the renderer has waited on the child by the time it
\* returns, whichever step it returns from.
C20_AlwaysReaped ==
    (conv.pc = "returned" /\ conv.renderer # "none") => conv.waited

(***************************************************************************)
(* Claims about main.                                                      *)
(***************************************************************************)
\* the inputs the loop has dealt with
Processed == 1..(cli.next - 1)

Failing(k) == cli.filenames[k] \in {"missing", "fails"}

InSeq(x, sq) == \E i \in 1..Len(sq) : sq[i] = x

\* every input dealt with so far is accounted for: a failing one reported
\* and recorded as failed, a converted one counted as a success
Accounted ==
    /\ \A k \in Processed :
         /\ Failing(k) <=> InSeq(k, cli.failed_files)
         /\ Failing(k) =>
              \E i \in 1..Len(cli.reports) :
                /\ cli.reports[i].file = k
                /\ cli.reports[i].msg \in {"Error: File not found", "Conversion failed"}
    /\ cli.success_count + Len(cli.failed_files) = cli.next - 1

\* C16 (as claimed): for any list of input files, when the process exits
\* every input has been processed, each failing input reported and recorded
\* as failed; successes + failures equals the number of inputs, and the
\* exit status is non-zero exactly when at least one input failed.
C16_BatchAlways ==
    cli.pc = "exited" =>
        /\ Accounted
        /\ cli.next = Len(cli.filenames) + 1
        /\ cli.success_count + Len(cli.failed_files) = Len(cli.filenames)
        /\ cli.exit # 0 <=> cli.failed_files # << >>

\* C16 (amended): unless --output-filename is given together with more than
\* one input file, in which case the CLI exits with status 1 before
\* processing any input, a failing input (missing file or failed
\* conversion) is reported and recorded as failed and processing continues
\* with every remaining input; at the end successes + failures equals the
\* number of inputs, and the exit status is non-zero exactly when at least
\* one input failed.
C16_Batch ==
    cli.pc # "none" =>
        /\ Accounted
        /\ cli.rejected <=> (/\ Len(cli.filenames) > 1 /\ cli.output_filename
                             /\ cli.pc = "exited")
        /\ cli.rejected => (cli.exit = 1 /\ cli.next = 1)
        /\ (cli.pc = "exited" /\ ~cli.rejected) =>
              /\ cli.next = Len(cli.filenames) + 1
              /\ cli.success_count + Len(cli.failed_files) = Len(cli.filenames)
              /\ cli.exit # 0 <=> cli.failed_files # << >>
              /\ cli.exit # 0 <=> \E k \in 1..Len(cli.filenames) : Failing(k)
        /\ cli.pc # "exited" => cli.exit = -1

\* a missing file, then a failed conversion, then a successful one
C16_Witness ==
    /\ cli.pc = "exited"
    /\ cli.filenames = << "missing", "fails", "converts" >>
    /\ cli.success_count = 1
    /\ cli.failed_files = << 1, 2 >>
    /\ cli.exit = 1

(***************************************************************************)
(* Claims about what read_all_pages consumes.                              *)
(***************************************************************************)
\* bytes of the frames of the pages ps: 4 header bytes and width*height*3
\* pixel bytes each
RECURSIVE PagesBytes(_)
PagesBytes(ps) ==
    IF ps = << >> THEN 0
    ELSE 4 + Head(ps).width * Head(ps).height * 3 + PagesBytes(Tail(ps))

\* the source holds the count, every declared page, and bytes after them
TrailingStream ==
    /\ wire.declared >= 1
    /\ wire.declared < Len(wire.pages)
    /\ \A i \in 1..wire.declared : WellFormed(wire.pages[i])
    /\ Len(Data) > DeclaredBytes

\* what a successful read_all_pages has consumed, and that bytes after the
\* declared pages do not make it fail
ConsumedExactly ==
    /\ (res.op = "read_all_pages" /\ res.out.ok) =>
          /\ Len(res.out.val) = U16At(res.start)
          /\ pos = res.start + 2 + PagesBytes(res.out.val)
          /\ pos <= Len(Data)
          /\ res.start = 0 =>
               /\ pos = DeclaredBytes
               /\ res.out.val = SubSeq(wire.pages, 1, wire.declared)
    /\ (AlignedReadAll /\ TrailingStream) =>
          (res.out.ok /\ pos = DeclaredBytes /\ pos < Len(Data))

\* the read that follows a successful read_all_pages starts at the first
\* byte after the declared pages and is handed the bytes that lie there
NextReadSeesRest ==
    (res.op = "read_all_pages" /\ res.out.ok) =>
        /\ res'.start = pos
        /\ (res'.op \in {"read_page_count", "read_all_pages"} /\ Len(Data) >= pos + 2) =>
              IF U16At(pos) = 0
              THEN res'.out = Err(InvalidPageCount(0)) /\ pos' = pos + 2
              ELSE res'.op = "read_page_count" =>
                     (res'.out = Ok(U16At(pos)) /\ pos' = pos + 2)
        /\ (/\ res'.op = "read_page" /\ res.start = 0 /\ TrailingStream
            /\ WellFormed(wire.pages[wire.declared + 1])
            /\ Len(Data) >= pos + PagesBytes(<< wire.pages[wire.declared + 1] >>)) =>
              (/\ res'.out = Ok(wire.pages[wire.declared + 1])
               /\ pos' = pos + PagesBytes(<< wire.pages[wire.declared + 1] >>))

\* C21: exact consumption. A successful read_all_pages on a stream
\* declaring pages (w_1,h_1)..(w_N,h_N) consumes exactly
\* 2 + sum of (4 + w_i*h_i*3) bytes of the source; bytes that follow the
\* last declared page are neither read nor reported as an error, and they
\* are the next bytes that a later read on the same reader sees.
C21_ExactConsumption == [][ConsumedExactly' /\ NextReadSeesRest]_vars

\* a read_all_pages that returned the one declared page and left a whole
\* frame unread
C21_Witness ==
    /\ AlignedReadAll /\ TrailingStream
    /\ wire.declared = 1
    /\ WellFormed(wire.pages[2])
    /\ Data = create_test_stream(wire.declared, wire.pages)
    /\ res.out.ok /\ Len(res.out.val) = 1
    /\ pos = DeclaredBytes /\ pos < Len(Data)

====
